---- MODULE Spec2Model ----
(***************************************************************************)
(* A model of the rsrt path tracer (src/src/main.rs, hit.rs, material.rs,  *)
(* vec3.rs).                                                               *)
(*                                                                         *)
(* f32 is modelled as fixed point: the integer n stands for n / One.       *)
(* Addition and subtraction are exact; multiplication, division and sqrt   *)
(* round toward zero to the grid, as f32 rounds to its own grid.           *)
(***************************************************************************)
EXTENDS Integers, Sequences, FiniteSets

(* ------------------------------ bounds -------------------------------- *)

\* grid resolution: the integer One stands for 1.0
One == 4

\* number of values the random source can return in [0, 1)
RandSteps == 3

(* ------------------------------ f32 ----------------------------------- *)

Abs(a) == IF a < 0 THEN -a ELSE a

Sgn(a) == IF a < 0 THEN -1 ELSE IF a > 0 THEN 1 ELSE 0

TruncDiv(a, b) == Sgn(a) * Sgn(b) * (Abs(a) \div Abs(b))

MulF(a, b) == TruncDiv(a * b, One)

DivF(a, b) == TruncDiv(a * One, b)

ISqrt(n) == CHOOSE r \in 0..n : r * r <= n /\ (r + 1) * (r + 1) > n

SqrtF(a) == ISqrt(a * One)

\* f32::clamp(min, max)
Clamp(a, lo, hi) == IF a < lo THEN lo ELSE IF a > hi THEN hi ELSE a

(* ------------------------------ Vec3 ---------------------------------- *)

Vec3(x, y, z) == <<x, y, z>>

ZERO == Vec3(0, 0, 0)

X == Vec3(One, 0, 0)

Y == Vec3(0, One, 0)

Z == Vec3(0, 0, One)

UNIT == Vec3(One, One, One)

length_squared(a) == MulF(a[1], a[1]) + MulF(a[2], a[2]) + MulF(a[3], a[3])

length(a) == SqrtF(length_squared(a))

dot(a, b) == MulF(a[1], b[1]) + MulF(a[2], b[2]) + MulF(a[3], b[3])

\* impl Neg for Vec3: the components are returned as they are
Neg(a) == Vec3(a[1], a[2], a[3])

Add(a, b) == Vec3(a[1] + b[1], a[2] + b[2], a[3] + b[3])

Sub(a, b) == Vec3(a[1] - b[1], a[2] - b[2], a[3] - b[3])

\* impl Mul<f32> for Vec3 and impl Mul<Vec3> for f32
Scale(k, a) == Vec3(MulF(a[1], k), MulF(a[2], k), MulF(a[3], k))

\* impl Div<f32> for Vec3 (rhs # 0)
DivV(a, k) == Vec3(DivF(a[1], k), DivF(a[2], k), DivF(a[3], k))

\* Colour * Colour, the componentwise product used by Ray::colour
MulV(a, b) == Vec3(MulF(a[1], b[1]), MulF(a[2], b[2]), MulF(a[3], b[3]))

\* Vec3::unit; the caller guards length(a) # 0 (0.0 / 0.0 is NaN)
unit(a) == DivV(a, length(a))

(* --------------------------- random source ---------------------------- *)

\* the values random_double() can return: a grid on [0, 1)
Uniform01 == { (k * One) \div RandSteps : k \in 0..(RandSteps - 1) }

\* random_double_in_range(min, max), given the uniform draw d in [0, 1)
random_double_in_range(min, max, d) == min + MulF(d, max - min)

\* the candidates of one iteration of the rejection loop
random_in_range(min, max) ==
    { Vec3(random_double_in_range(min, max, d1),
           random_double_in_range(min, max, d2),
           random_double_in_range(min, max, d3)) :
        d1 \in Uniform01, d2 \in Uniform01, d3 \in Uniform01 }

\* the values random_in_unit_sphere() can return: the accepted candidates
random_in_unit_sphere == { p \in random_in_range(-One, One) : length_squared(p) < One }

\* cos and sin of the azimuth a = 2*pi*d, taken at the quadrant below it
CosSin(d) ==
    LET q == (d * 4) \div One
    IN  CASE q = 0 -> <<One, 0>>
          [] q = 1 -> <<0, One>>
          [] q = 2 -> <<-One, 0>>
          [] OTHER -> <<0, -One>>

\* random_unit_vector(), given the two uniform draws
random_unit_vector_of(da, dz) ==
    LET z  == random_double_in_range(-One, One, dz)
        r  == SqrtF(One - MulF(z, z))
        cs == CosSin(da)
    IN  Vec3(MulF(r, cs[1]), MulF(r, cs[2]), z)

random_unit_vector == { random_unit_vector_of(da, dz) : da \in Uniform01, dz \in Uniform01 }

\* Vec3::random_in_hemisphere(&self), given the sample drawn
random_in_hemisphere(self, in_unit_sphere) ==
    IF dot(self, in_unit_sphere) > 0 THEN in_unit_sphere ELSE Neg(in_unit_sphere)

(* ------------------------------ Option -------------------------------- *)

None == [some |-> FALSE]

Some(x) == [some |-> TRUE, val |-> x]

(* ------------------------------ Ray ----------------------------------- *)

Ray(origin, direction) == [origin |-> origin, direction |-> direction]

\* Ray::at
at(ray, t) == Add(ray.origin, Scale(t, ray.direction))

(* ---------------------------- HitRecord ------------------------------- *)

\* HitRecord::new
HitRecordNew(ray, p, outward_normal, t, material) ==
    LET front_face == dot(ray.direction, outward_normal) < 0
        normal     == IF front_face THEN outward_normal ELSE Neg(outward_normal)
    IN  [p |-> p, normal |-> normal, t |-> t, front_face |-> front_face,
         material |-> material]

(* ---------------------------- materials ------------------------------- *)

\* Lambertian::new
LambertianNew(albedo) == [kind |-> "Lambertian", albedo |-> albedo, fuzz |-> 0]

\* Metal::new: fuzz is clamped to [0, 1]
MetalNew(albedo, fuzz) == [kind |-> "Metal", albedo |-> albedo, fuzz |-> Clamp(fuzz, 0, One)]

\* Lambertian::scatter, given the unit vector drawn
LambertianScatter(self, ray, hit_rec, rnd) ==
    LET scatter_direction == Add(hit_rec.normal, rnd)
    IN  Some(<<self.albedo, Ray(hit_rec.p, scatter_direction)>>)

\* fn reflect inside Metal::scatter: v - 2.0 * v.dot(n) * n
reflect(v, n) == Sub(v, Scale(MulF(2 * One, dot(v, n)), n))

\* Metal::scatter, given the sample drawn in the unit sphere
\* (the caller guards ray.direction # ZERO: unit() of it is taken first)
MetalScatter(self, ray, hit_rec, rnd) ==
    LET reflected == reflect(unit(ray.direction), hit_rec.normal)
    IN  IF dot(reflected, hit_rec.normal) > 0
        THEN Some(<<self.albedo,
                    Ray(hit_rec.p, Add(reflected, Scale(self.fuzz, rnd)))>>)
        ELSE None

\* the draws a material's scatter can make
ScatterDraws(material) ==
    IF material.kind = "Lambertian" THEN random_unit_vector ELSE random_in_unit_sphere

\* Material::scatter, the dynamic dispatch on the hit's material
Scatter(material, ray, hit_rec, rnd) ==
    IF material.kind = "Lambertian"
    THEN LambertianScatter(material, ray, hit_rec, rnd)
    ELSE MetalScatter(material, ray, hit_rec, rnd)

(* ------------------------------ Sphere -------------------------------- *)

Sphere(center, radius, material) ==
    [center |-> center, radius |-> radius, material |-> material]

\* f32::INFINITY: above every t the model can compute
INFINITY == 1000000

\* the 0.001 of Ray::colour: the smallest positive value of the grid
T_MIN == 1

\* Sphere::hit without the lower bound in the test that moves on to the
\* larger root
SphereHit_NoLowerRetry(self, ray, t_min, t_max) ==
    LET oc           == Sub(ray.origin, self.center)
        a            == length_squared(ray.direction)
        half_b       == dot(oc, ray.direction)
        c            == length_squared(oc) - MulF(self.radius, self.radius)
        discriminant == MulF(half_b, half_b) - MulF(a, c)
    IN  IF discriminant > 0 /\ a # 0
        THEN LET root  == SqrtF(discriminant)
                 temp0 == DivF(-half_b - root, a)
                 temp  == IF temp0 >= t_max
                          THEN DivF(-half_b + root, a)
                          ELSE temp0
             IN  IF temp < t_max /\ temp > t_min
                 THEN LET point == at(ray, temp)
                      IN  Some(HitRecordNew(ray, point,
                                            DivV(Sub(point, self.center), self.radius),
                                            temp, self.material))
                 ELSE None
        ELSE None

\* impl Hit for Sphere.  With a = 0 both roots are +-inf or NaN, and every
\* comparison of the final range test is then false.
SphereHit(self, ray, t_min, t_max) ==
    LET oc           == Sub(ray.origin, self.center)
        a            == length_squared(ray.direction)
        half_b       == dot(oc, ray.direction)
        c            == length_squared(oc) - MulF(self.radius, self.radius)
        discriminant == MulF(half_b, half_b) - MulF(a, c)
    IN  IF discriminant > 0 /\ a # 0
        THEN LET root  == SqrtF(discriminant)
                 temp0 == DivF(-half_b - root, a)
                 temp  == IF temp0 >= t_max \/ temp0 <= t_min
                          THEN DivF(-half_b + root, a)
                          ELSE temp0
             IN  IF temp < t_max /\ temp > t_min
                 THEN LET point == at(ray, temp)
                      IN  Some(HitRecordNew(ray, point,
                                            DivV(Sub(point, self.center), self.radius),
                                            temp, self.material))
                 ELSE None
        ELSE None

(* ------------------------------ state --------------------------------- *)

VARIABLES
    pc,              \* where the program is
    call,            \* the last call of a function applied on its own
    world,           \* the HitList: a sequence of spheres
    ray, t_min, t_max,              \* the arguments of HitList::hit
    idx, closest_so_far, record,    \* the locals of HitList::hit
    probe,           \* the last Sphere::hit call and what it returned
    budget,          \* max_depth of the outermost Ray::colour call
    max_depth,       \* max_depth of the innermost Ray::colour call
    stack,           \* the attenuations of the calls waiting for their callee
    path,            \* what each Ray::colour call did, outermost first
    result, nan,     \* the colour returned, and whether it is NaN
    hits, scatters,  \* world.hit and material.scatter calls so far
    i, j, sample, pixel_color, frame,   \* the locals of main
    u, v,            \* the arguments of the last Camera::get_ray call
    stored,          \* the pixels whose frame entry has been assigned
    out              \* the lines printed: header lines, then pixels

pureVars == <<call>>

hitVars == <<world, ray, t_min, t_max, idx, closest_so_far, record, probe>>

colourVars == <<budget, max_depth, stack, path, result, nan, hits, scatters>>

mainVars == <<i, j, sample, pixel_color, frame, u, v, stored, out>>

vars == <<pc, pureVars, hitVars, colourVars, mainVars>>

NoCall == [fn |-> "none"]

PureIdle == call = NoCall

HitIdle ==
    /\ world = <<>>
    /\ ray = Ray(ZERO, ZERO)
    /\ t_min = 0
    /\ t_max = 0
    /\ idx = 0
    /\ closest_so_far = 0
    /\ record = None
    /\ probe = NoCall

ColourIdle ==
    /\ budget = 0
    /\ max_depth = 0
    /\ stack = <<>>
    /\ path = <<>>
    /\ result = ZERO
    /\ nan = FALSE
    /\ hits = 0
    /\ scatters = 0

MainIdle ==
    /\ i = 0
    /\ j = 0
    /\ sample = 0
    /\ pixel_color = ZERO
    /\ frame = <<>>
    /\ u = 0
    /\ v = 0
    /\ stored = {}
    /\ out = <<>>

(* ------------------- functions applied on their own ------------------- *)

Vecs(S) == { Vec3(x, y, z) : x \in S, y \in S, z \in S }

\* the components of the vectors the functions are applied to
PureCoords == {-One, -1, 0, 1, One}

PureVecs == Vecs(PureCoords)

\* the normals of length 1 among them
PureNormals == { n \in PureVecs : n[1] * n[1] + n[2] * n[2] + n[3] * n[3] = One * One }

\* the fuzz values handed to Metal::new: below, inside and above [0, 1]
FuzzInputs == {-1, One \div 2, One + 1}

CallHitRecordNew ==
    /\ pc = "pure"
    /\ \E d \in PureVecs, n \in PureVecs :
         call' = [fn |-> "HitRecord::new", direction |-> d, outward_normal |-> n,
                  ret |-> HitRecordNew(Ray(ZERO, d), d, n, One, LambertianNew(UNIT))]
    /\ pc' = "returned"
    /\ UNCHANGED <<hitVars, colourVars, mainVars>>

CallRandomInHemisphere ==
    /\ pc = "pure"
    /\ \E n \in PureVecs, s \in random_in_unit_sphere :
         call' = [fn |-> "random_in_hemisphere", normal |-> n, in_unit_sphere |-> s,
                  ret |-> random_in_hemisphere(n, s)]
    /\ pc' = "returned"
    /\ UNCHANGED <<hitVars, colourVars, mainVars>>

CallMetalScatter ==
    /\ pc = "pure"
    /\ \E f \in FuzzInputs, d \in PureVecs, n \in PureNormals, s \in random_in_unit_sphere :
         /\ length(d) # 0
         /\ LET self    == MetalNew(UNIT, f)
                r       == Ray(ZERO, d)
                hit_rec == [p |-> d, normal |-> n, t |-> One, front_face |-> TRUE,
                            material |-> self]
            IN  call' = [fn |-> "Metal::scatter", fuzz |-> self.fuzz, rnd |-> s,
                         normal |-> n, ret |-> MetalScatter(self, r, hit_rec, s)]
    /\ pc' = "returned"
    /\ UNCHANGED <<hitVars, colourVars, mainVars>>

InitPure == pc = "pure" /\ PureIdle /\ HitIdle /\ ColourIdle /\ MainIdle

NextPure == CallHitRecordNew \/ CallRandomInHemisphere \/ CallMetalScatter

SpecPure == InitPure /\ [][NextPure]_vars

(* C1: every HitRecord built by HitRecord::new has front_face =            *)
(* (dot(ray.direction, outward_normal) < 0), keeps outward_normal when     *)
(* front_face and stores its componentwise negation otherwise, so that     *)
(* dot(ray.direction, normal) <= 0.                                        *)
C1_NormalAgainstRay ==
    call.fn = "HitRecord::new" =>
        /\ call.ret.front_face = (dot(call.direction, call.outward_normal) < 0)
        /\ call.ret.normal = IF call.ret.front_face
                             THEN call.outward_normal
                             ELSE Vec3(-call.outward_normal[1], -call.outward_normal[2],
                                       -call.outward_normal[3])
        /\ dot(call.direction, call.ret.normal) <= 0

(* C3: whenever Metal::scatter returns Some((attenuation, scattered)), the *)
(* scattered direction points away from the surface:                       *)
(* dot(scattered.direction, hit.normal) > 0.                               *)
C3_ScatteredLeavesSurface ==
    (call.fn = "Metal::scatter" /\ call.ret.some) =>
        dot(call.ret.val[2].direction, call.normal) > 0

(* C4: random_in_hemisphere(n) returns r with dot(r, n) >= 0.              *)
C4_InHemisphere ==
    call.fn = "random_in_hemisphere" => dot(call.ret, call.normal) >= 0

(* ------------------------------ HitList ------------------------------- *)

\* the most primitives a HitList holds
MaxPrims == 2

\* the primitives the scenes are built from: two overlapping spheres down the
\* -z axis (A, B), one beside them (C), one beside the camera (G), and two
\* that enclose the origin (E diffuse, F metal)
SphereA == Sphere(Vec3(0, 0, -3 * One), One, LambertianNew(Vec3(One, 0, 0)))

SphereB == Sphere(Vec3(0, 0, -4 * One), 2 * One, MetalNew(UNIT, One \div 2))

SphereC == Sphere(Vec3(2 * One, 0, -3 * One), One, MetalNew(UNIT, 0))

SphereE == Sphere(ZERO, 6 * One, LambertianNew(Vec3(One \div 2, One \div 2, One \div 2)))

SphereF == Sphere(ZERO, 6 * One, MetalNew(UNIT, One))

SphereG == Sphere(Vec3(2 * One, 0, 0), One, MetalNew(UNIT, 0))

SceneSpheres == {SphereA, SphereB, SphereC, SphereE, SphereF, SphereG}

\* the rays HitList::hit is queried with
HitRays ==
    { Ray(o, d) : o \in {ZERO, Vec3(0, 0, -3 * One), Vec3(One, 0, One)},
                  d \in Vecs({-One, 0, One}) }

HitTMins == {-One, 0, T_MIN, 3 * One}

HitTMaxs == {One, 3 * One, 6 * One, INFINITY}

\* HitList::add
HitListAdd ==
    /\ pc = "build"
    /\ Len(world) < MaxPrims
    /\ \E obj \in SceneSpheres : world' = Append(world, obj)
    /\ UNCHANGED <<pc, call, ray, t_min, t_max, idx, closest_so_far, record, probe,
                   colourVars, mainVars>>

\* HitList::clear
HitListClear ==
    /\ pc = "build"
    /\ world # <<>>
    /\ world' = <<>>
    /\ UNCHANGED <<pc, call, ray, t_min, t_max, idx, closest_so_far, record, probe,
                   colourVars, mainVars>>

\* HitList::hit, up to its loop
HitListEnter(r, tmin, tmax) ==
    /\ ray' = r
    /\ t_min' = tmin
    /\ t_max' = tmax
    /\ idx' = 1
    /\ closest_so_far' = tmax
    /\ record' = None
    /\ probe' = NoCall
    /\ pc' = "hit_loop"
    /\ UNCHANGED world

HitListHit ==
    /\ pc = "build"
    /\ \E r \in HitRays, tmin \in HitTMins, tmax \in HitTMaxs : HitListEnter(r, tmin, tmax)
    /\ UNCHANGED <<call, colourVars, mainVars>>

\* the loop of HitList::hit with every member asked up to t_max
HitListIter_NoShrink ==
    /\ pc = "hit_loop"
    /\ idx <= Len(world)
    /\ LET o       == world[idx]
           new_rec == SphereHit(o, ray, t_min, t_max)
       IN  /\ probe' = [fn |-> "Sphere::hit", self |-> o, t_max |-> closest_so_far,
                        ret |-> new_rec]
           /\ IF new_rec.some
              THEN closest_so_far' = new_rec.val.t /\ record' = new_rec
              ELSE UNCHANGED <<closest_so_far, record>>
    /\ idx' = idx + 1
    /\ UNCHANGED <<pc, call, world, ray, t_min, t_max, colourVars, mainVars>>

\* one iteration of the loop of HitList::hit
HitListIter ==
    /\ pc = "hit_loop"
    /\ idx <= Len(world)
    /\ LET o       == world[idx]
           new_rec == SphereHit(o, ray, t_min, closest_so_far)
       IN  /\ probe' = [fn |-> "Sphere::hit", self |-> o, t_max |-> closest_so_far,
                        ret |-> new_rec]
           /\ IF new_rec.some
              THEN closest_so_far' = new_rec.val.t /\ record' = new_rec
              ELSE UNCHANGED <<closest_so_far, record>>
    /\ idx' = idx + 1
    /\ UNCHANGED <<pc, call, world, ray, t_min, t_max, colourVars, mainVars>>

\* the end of the loop: record is returned
HitListReturn ==
    /\ pc = "hit_loop"
    /\ idx > Len(world)
    /\ pc' = "hit_return"
    /\ UNCHANGED <<call, hitVars, colourVars, mainVars>>

InitHit == pc = "build" /\ PureIdle /\ HitIdle /\ ColourIdle /\ MainIdle

NextHit == HitListAdd \/ HitListClear \/ HitListHit \/ HitListIter \/ HitListReturn

SpecHit == InitHit /\ [][NextHit]_vars

\* the members a ray hits inside (t_min, t_max), each asked on its own
Hitters == { k \in 1..Len(world) : SphereHit(world[k], ray, t_min, t_max).some }

SetMin(S) == CHOOSE m \in S : \A x \in S : m <= x

(* C2: HitList::hit returns None exactly when no member reports a hit      *)
(* inside (t_min, t_max), otherwise a record whose t is the least t of the *)
(* members' hits; no iteration of its loop raises closest_so_far.          *)
C2_NearestHit ==
    /\ pc = "hit_return" =>
         /\ record.some <=> Hitters # {}
         /\ record.some =>
              record.val.t =
                SetMin({ SphereHit(world[k], ray, t_min, t_max).val.t : k \in Hitters })
    /\ (pc = "hit_loop" /\ probe # NoCall) => closest_so_far <= probe.t_max
    /\ pc = "hit_loop" => closest_so_far <= t_max

C2_Witness ==
    /\ pc = "hit_return"
    /\ Cardinality(Hitters) >= 2
    /\ record.some
    /\ \E k \in Hitters : SphereHit(world[k], ray, t_min, t_max).val.t > record.val.t
    /\ record.val.t < SphereHit(world[Len(world)], ray, t_min, t_max).val.t

\* the quadratic of the last Sphere::hit call
ProbeA == length_squared(ray.direction)

ProbeHalfB == dot(Sub(ray.origin, probe.self.center), ray.direction)

ProbeDiscriminant ==
    MulF(ProbeHalfB, ProbeHalfB)
      - MulF(ProbeA, length_squared(Sub(ray.origin, probe.self.center))
                       - MulF(probe.self.radius, probe.self.radius))

ProbeSmaller == DivF(-ProbeHalfB - SqrtF(ProbeDiscriminant), ProbeA)

ProbeLarger == DivF(-ProbeHalfB + SqrtF(ProbeDiscriminant), ProbeA)

ProbeInside(t) == t_min < t /\ t < probe.t_max

(* C9: Sphere::hit returns None when the discriminant is <= 0; otherwise   *)
(* the smaller root if it lies strictly inside (t_min, t_max), else the    *)
(* larger root if that one does, else None; a returned record has t inside *)
(* (t_min, t_max), p = ray.at(t) and the outward normal (p - center) /     *)
(* radius oriented by HitRecord::new.                                      *)
C9_SphereRoots ==
    probe # NoCall =>
        /\ ProbeDiscriminant <= 0 => probe.ret = None
        /\ ProbeDiscriminant > 0 =>
             IF ProbeInside(ProbeSmaller)
             THEN probe.ret.some /\ probe.ret.val.t = ProbeSmaller
             ELSE IF ProbeInside(ProbeLarger)
                  THEN probe.ret.some /\ probe.ret.val.t = ProbeLarger
                  ELSE probe.ret = None
        /\ probe.ret.some =>
             /\ ProbeInside(probe.ret.val.t)
             /\ probe.ret.val.p = at(ray, probe.ret.val.t)
             /\ probe.ret.val =
                  HitRecordNew(ray, probe.ret.val.p,
                               DivV(Sub(probe.ret.val.p, probe.self.center),
                                    probe.self.radius),
                               probe.ret.val.t, probe.self.material)

\* the larger root is returned, the smaller one lying at or below t_min
C9_Witness ==
    /\ probe # NoCall
    /\ ProbeDiscriminant > 0
    /\ ~ProbeInside(ProbeSmaller)
    /\ probe.ret.some
    /\ probe.ret.val.t = ProbeLarger
    /\ ProbeLarger # ProbeSmaller

(* ------------------------------ Camera -------------------------------- *)

ASPECT_RATIO == DivF(16 * One, 9 * One)

VIEWPORT_HEIGHT == 2 * One

VIEWPORT_WIDTH == MulF(ASPECT_RATIO, VIEWPORT_HEIGHT)

FOCAL_LENGTH == One

\* Camera::new
Camera ==
    LET origin     == Vec3(0, 0, 0)
        horizontal == Vec3(VIEWPORT_WIDTH, 0, 0)
        vertical   == Vec3(0, VIEWPORT_HEIGHT, 0)
    IN  [origin |-> origin, horizontal |-> horizontal, vertical |-> vertical,
         lower_left_corner |->
             Sub(Sub(Sub(origin, DivV(horizontal, 2 * One)), DivV(vertical, 2 * One)),
                 Vec3(0, 0, FOCAL_LENGTH))]

\* Camera::get_ray
get_ray(self, cu, cv) ==
    Ray(self.origin,
        Sub(Add(Add(self.lower_left_corner, Scale(cu, self.horizontal)),
                Scale(cv, self.vertical)),
            self.origin))

(* ----------------------------- Ray::colour ---------------------------- *)

\* the largest max_depth Ray::colour is called with
MaxDepth == 3

\* the scenes: open ones, and ones closed around the camera by a diffuse or
\* a metal sphere
ColourScenes ==
    { <<SphereA, SphereC>>, <<SphereB, SphereA>>, <<SphereC, SphereB>>,
      <<SphereA, SphereG>>,
      <<SphereE>>, <<SphereA, SphereE>>, <<SphereF, SphereA>>, <<SphereB, SphereF>> }

\* the camera rays Ray::colour is called on
CameraRays == { get_ray(Camera, cu, cv) : cu \in 0..One, cv \in 0..One }

\* the miss branch of Ray::colour, for a direction of non-zero length
Background(direction) ==
    LET unit_direction == unit(direction)
        t              == MulF(One \div 2, unit_direction[2] + One)
    IN  Add(Scale(One - t, Vec3(One, One, One)),
            Scale(t, Vec3(One \div 2, (7 * One) \div 10, One)))

\* if max_depth == 0 { return Colour::ZERO; }
ColourExhausted ==
    /\ pc = "colour"
    /\ max_depth = 0
    /\ result' = ZERO
    /\ nan' = FALSE
    /\ path' = Append(path, [max_depth |-> max_depth, ray |-> ray, queried |-> FALSE])
    /\ pc' = "colour_return"
    /\ UNCHANGED <<call, hitVars, budget, max_depth, stack, hits, scatters, mainVars>>

\* world.hit(self, 0.001, f32::INFINITY)
ColourQuery ==
    /\ pc = "colour"
    /\ max_depth # 0
    /\ HitListEnter(ray, T_MIN, INFINITY)
    /\ hits' = hits + 1
    /\ UNCHANGED <<call, budget, max_depth, stack, path, result, nan, scatters, mainVars>>

\* the hit branch with the callee given max_depth, not max_depth - 1
ColourHit_SameDepth ==
    /\ pc = "hit_return"
    /\ record.some
    /\ \E rnd \in ScatterDraws(record.val.material) :
         LET rec == record.val
             sc  == Scatter(rec.material, ray, rec, rnd)
         IN  /\ path' = Append(path, [max_depth |-> max_depth, ray |-> ray,
                                      queried |-> TRUE, rec |-> record,
                                      scattered |-> TRUE, sc |-> sc])
             /\ IF sc.some
                THEN /\ stack' = Append(stack, sc.val[1])
                     /\ ray' = sc.val[2]
                     /\ max_depth' = max_depth
                     /\ pc' = "colour"
                     /\ UNCHANGED <<result, nan>>
                ELSE /\ result' = ZERO
                     /\ nan' = FALSE
                     /\ pc' = "colour_return"
                     /\ UNCHANGED <<stack, ray, max_depth>>
    /\ scatters' = scatters + 1
    /\ UNCHANGED <<call, world, t_min, t_max, idx, closest_so_far, record, probe,
                   budget, hits, mainVars>>

\* the hit branch: rec.material.scatter(self, &rec), then either the
\* recursive call on the scattered ray or Vec3::ZERO
ColourHit ==
    /\ pc = "hit_return"
    /\ record.some
    /\ \E rnd \in ScatterDraws(record.val.material) :
         LET rec == record.val
             sc  == Scatter(rec.material, ray, rec, rnd)
         IN  /\ path' = Append(path, [max_depth |-> max_depth, ray |-> ray,
                                      queried |-> TRUE, rec |-> record,
                                      scattered |-> TRUE, sc |-> sc])
             /\ IF sc.some
                THEN /\ stack' = Append(stack, sc.val[1])
                     /\ ray' = sc.val[2]
                     /\ max_depth' = max_depth - 1
                     /\ pc' = "colour"
                     /\ UNCHANGED <<result, nan>>
                ELSE /\ result' = ZERO
                     /\ nan' = FALSE
                     /\ pc' = "colour_return"
                     /\ UNCHANGED <<stack, ray, max_depth>>
    /\ scatters' = scatters + 1
    /\ UNCHANGED <<call, world, t_min, t_max, idx, closest_so_far, record, probe,
                   budget, hits, mainVars>>

\* the miss branch: the background gradient of self.direction.unit(); on a
\* direction of length 0 unit() divides 0.0 by 0.0 and the colour is NaN
ColourMiss ==
    /\ pc = "hit_return"
    /\ ~record.some
    /\ IF length(ray.direction) = 0
       THEN result' = ZERO /\ nan' = TRUE
       ELSE result' = Background(ray.direction) /\ nan' = FALSE
    /\ path' = Append(path, [max_depth |-> max_depth, ray |-> ray, queried |-> TRUE,
                             rec |-> record, scattered |-> FALSE])
    /\ pc' = "colour_return"
    /\ UNCHANGED <<call, hitVars, budget, max_depth, stack, hits, scatters, mainVars>>

\* the return of a nested call with the attenuation added, not multiplied
ColourMul_Added ==
    /\ pc = "colour_return"
    /\ stack # <<>>
    /\ result' = Add(stack[Len(stack)], result)
    /\ stack' = SubSeq(stack, 1, Len(stack) - 1)
    /\ UNCHANGED <<pc, call, hitVars, budget, max_depth, path, nan, hits, scatters,
                   mainVars>>

\* attenuation * scattered.colour(world, max_depth - 1), the callee having
\* returned (a NaN factor leaves the product NaN)
ColourMul ==
    /\ pc = "colour_return"
    /\ stack # <<>>
    /\ result' = MulV(stack[Len(stack)], result)
    /\ stack' = SubSeq(stack, 1, Len(stack) - 1)
    /\ UNCHANGED <<pc, call, hitVars, budget, max_depth, path, nan, hits, scatters,
                   mainVars>>

\* the outermost call returns
ColourReturn ==
    /\ pc = "colour_return"
    /\ stack = <<>>
    /\ pc' = "colour_done"
    /\ UNCHANGED <<call, hitVars, colourVars, mainVars>>

InitColour ==
    /\ pc = "colour"
    /\ PureIdle
    /\ MainIdle
    /\ world \in ColourScenes
    /\ ray \in CameraRays
    /\ t_min = 0
    /\ t_max = 0
    /\ idx = 0
    /\ closest_so_far = 0
    /\ record = None
    /\ probe = NoCall
    /\ budget \in 0..MaxDepth
    /\ max_depth = budget
    /\ stack = <<>>
    /\ path = <<>>
    /\ result = ZERO
    /\ nan = FALSE
    /\ hits = 0
    /\ scatters = 0

NextColour ==
    \/ ColourExhausted
    \/ ColourQuery
    \/ HitListIter
    \/ HitListReturn
    \/ ColourHit
    \/ ColourMiss
    \/ ColourMul
    \/ ColourReturn

SpecColour == InitColour /\ [][NextColour]_vars

\* the steps a Ray::colour call can still take
Rank ==
    LET L == Len(world) + 3
    IN  CASE pc = "colour"        -> max_depth * L + Len(stack) + max_depth + 2
          [] pc = "hit_loop"      -> (Len(world) + 1 - idx) + 2
                                       + (max_depth - 1) * L + Len(stack) + max_depth + 2
          [] pc = "hit_return"    -> 1 + (max_depth - 1) * L + Len(stack) + max_depth + 2
          [] pc = "colour_return" -> Len(stack) + 1
          [] OTHER                -> 0

C7_Budget ==
    /\ hits <= budget
    /\ hits = Cardinality({ k \in 1..Len(path) : path[k].queried })
                + (IF pc \in {"hit_loop", "hit_return"} THEN 1 ELSE 0)
    /\ pc \in {"colour", "hit_loop", "hit_return"} => max_depth = budget - Len(stack)
    /\ \A k \in 1..Len(path) : path[k].max_depth = budget - (k - 1)
    /\ budget = 0 => hits = 0 /\ scatters = 0
    /\ (budget = 0 /\ pc = "colour_done") => result = ZERO /\ ~nan

(* C7: Ray::colour called with budget d ends after at most d world.hit     *)
(* queries, each nested call receiving d - 1 (every step lowers Rank, so   *)
(* it ends); with max_depth = 0 it returns (0,0,0) without a query of the  *)
(* world or of a material.                                                 *)
C7_DepthBound == []C7_Budget /\ [][Rank' < Rank]_vars

\* a closed scene: every call with budget left hit and scattered
C7_Witness ==
    /\ pc = "colour_done"
    /\ budget = MaxDepth
    /\ hits = budget
    /\ scatters = budget
    /\ Len(path) = budget + 1

\* the colour the last entries of a path, from the k-th on, stand for
RECURSIVE RefColour(_, _)
RefColour(p, k) ==
    LET e     == p[k]
        black == [nan |-> FALSE, c |-> Vec3(0, 0, 0)]
    IN  IF e.max_depth = 0
        THEN black
        ELSE IF e.rec.some
             THEN IF e.sc.some
                  THEN LET r == RefColour(p, k + 1)
                           a == e.sc.val[1]
                       IN  [nan |-> r.nan,
                            c |-> Vec3(MulF(a[1], r.c[1]), MulF(a[2], r.c[2]),
                                       MulF(a[3], r.c[3]))]
                  ELSE black
             ELSE IF length(e.ray.direction) = 0
                  THEN [nan |-> TRUE, c |-> Vec3(0, 0, 0)]
                  ELSE LET t == MulF(One \div 2, unit(e.ray.direction)[2] + One)
                       IN  [nan |-> FALSE,
                            c |-> Vec3(MulF(One - t, One) + MulF(t, One \div 2),
                                       MulF(One - t, One) + MulF(t, (7 * One) \div 10),
                                       MulF(One - t, One) + MulF(t, One))]

(* C8: for budget d > 0, Ray::colour returns black on a hit whose scatter  *)
(* returns None, attenuation * colour(scattered, d - 1) componentwise on a *)
(* hit that scatters, and on a miss the gradient (1-t)*(1,1,1) +           *)
(* t*(0.5,0.7,1.0), t = 0.5*(unit_direction.y + 1), without a scatter call.*)
C8_ReferenceRecursion ==
    (pc = "colour_done" /\ budget > 0) =>
        /\ [nan |-> nan, c |-> result] = RefColour(path, 1)
        /\ \A k \in 1..Len(path) :
             path[k].queried =>
                 /\ path[k].scattered = path[k].rec.some
                 /\ path[k].scattered =>
                      IF path[k].sc.some
                      THEN /\ k < Len(path)
                           /\ path[k + 1].ray = path[k].sc.val[2]
                           /\ path[k + 1].max_depth = path[k].max_depth - 1
                      ELSE k = Len(path)
                 /\ ~path[k].scattered => k = Len(path)
        /\ scatters = Cardinality({ k \in 1..Len(path) : path[k].queried /\ path[k].scattered })

\* two hits that scatter and a scattered ray that misses: the gradient
\* tinted twice
C8_Witness ==
    /\ pc = "colour_done"
    /\ Len(path) = 3
    /\ path[1].queried /\ path[1].rec.some /\ path[1].sc.some
    /\ path[2].queried /\ path[2].rec.some /\ path[2].sc.some
    /\ path[3].queried /\ ~path[3].rec.some
    /\ ~nan
    /\ result # ZERO
    /\ result # Background(path[3].ray.direction)

(* C10: every ray on which unit() is evaluated (the miss branch of         *)
(* Ray::colour, the reflection of Metal::scatter) has a non-zero           *)
(* direction, and no scatter returns a ray whose direction is zero.        *)
C10_NoZeroDirection ==
    \A k \in 1..Len(path) :
        path[k].queried =>
            /\ ~path[k].rec.some => path[k].ray.direction # ZERO
            /\ (path[k].rec.some /\ path[k].rec.val.material.kind = "Metal") =>
                   path[k].ray.direction # ZERO
            /\ (path[k].scattered /\ path[k].sc.some) =>
                   path[k].sc.val[2].direction # ZERO

(* -------------------------------- main -------------------------------- *)

\* IMAGE_WIDTH (384 in the source)
IMAGE_WIDTH == 4

\* IMAGE_HEIGHT = (IMAGE_WIDTH as f32 / ASPECT_RATIO) as usize, ASPECT_RATIO = 16.0 / 9.0
IMAGE_HEIGHT == (IMAGE_WIDTH * 9) \div 16

\* SAMPLES_PER_PIXELS (250 in the source)
SAMPLES_PER_PIXELS == 1

\* a decimal literal of the source on the grid
Lit(num, den) == TruncDiv(num * One, den)

\* the scene main builds
MainWorld ==
    LET bg_material      == LambertianNew(Add(DivV(UNIT, 2 * One), DivV(Y, 2 * One)))
        default_material == LambertianNew(X)
        metal_material0  == MetalNew(Scale(Lit(8, 10), UNIT), 0)
        metal_material1  == MetalNew(Scale(Lit(8, 10), UNIT), Lit(3, 10))
        metal_material2  == MetalNew(Scale(Lit(8, 10), UNIT), Lit(8, 10))
    IN  << Sphere(Vec3(0, Lit(-1005, 10), -One), 100 * One, bg_material),
           Sphere(Vec3(0, Lit(2, 10), Lit(-15, 10)), Lit(5, 10), default_material),
           Sphere(Vec3(0, Lit(12, 10), Lit(-15, 10)), Lit(5, 10), metal_material0),
           Sphere(Vec3(One, Lit(2, 10), Lit(-15, 10)), Lit(5, 10), metal_material1),
           Sphere(Vec3(-One, Lit(2, 10), Lit(-15, 10)), Lit(5, 10), metal_material2) >>

\* the jitter draws of the render loop: the least and the greatest value of
\* random_double()
JitterDraws ==
    { d \in Uniform01 : (\A e \in Uniform01 : d <= e) \/ (\A e \in Uniform01 : d >= e) }

\* the colours r.colour(&world, 100) hands back to main: black, and one
\* that saturates a channel
SampleColours == {ZERO, Vec3(One, 2 * One, One \div 2)}

\* one channel of write_colour
Channel(c, scale) ==
    LET r == SqrtF(MulF(c, scale))
    IN  MulF(Lit(255999, 1000), Clamp(r, 0, Lit(999, 1000))) \div One

\* write_colour: the three integers of the line printed
write_colour(colour, samples_per_pixel) ==
    LET scale == DivF(One, samples_per_pixel * One)
    IN  <<Channel(colour[1], scale), Channel(colour[2], scale), Channel(colour[3], scale)>>

\* the lines of println!("P3\n{} {}\n255", IMAGE_WIDTH, IMAGE_HEIGHT)
HeaderLines ==
    << [kind |-> "P3", val |-> <<>>, j |-> -1, i |-> -1],
       [kind |-> "size", val |-> <<IMAGE_WIDTH, IMAGE_HEIGHT>>, j |-> -1, i |-> -1],
       [kind |-> "max", val |-> <<255>>, j |-> -1, i |-> -1] >>

\* main, from the header to the first iteration of the render loop
MainStart ==
    /\ pc = "main"
    /\ out' = HeaderLines
    /\ world' = MainWorld
    /\ frame' = [y \in 0..(IMAGE_HEIGHT - 1) |-> [x \in 0..(IMAGE_WIDTH - 1) |-> ZERO]]
    /\ j' = IMAGE_HEIGHT - 1
    /\ i' = 0
    /\ pixel_color' = ZERO
    /\ sample' = 0
    /\ pc' = "render"
    /\ UNCHANGED <<call, ray, t_min, t_max, idx, closest_so_far, record, probe,
                   colourVars, u, v, stored>>

\* one iteration of for _ in 0..SAMPLES_PER_PIXELS
MainSample ==
    /\ pc = "render"
    /\ sample < SAMPLES_PER_PIXELS
    /\ \E du \in JitterDraws, dv \in JitterDraws, c \in SampleColours :
         LET cu == DivF(i * One + random_double_in_range(0, One, du), (IMAGE_WIDTH - 1) * One)
             cv == DivF(j * One + random_double_in_range(0, One, dv), (IMAGE_HEIGHT - 1) * One)
         IN  /\ u' = cu
             /\ v' = cv
             /\ ray' = get_ray(Camera, cu, cv)
             /\ pixel_color' = Add(pixel_color, c)
    /\ sample' = sample + 1
    /\ UNCHANGED <<pc, call, world, t_min, t_max, idx, closest_so_far, record, probe,
                   colourVars, i, j, frame, stored, out>>

\* frame[j][i] = pixel_color, and the step of the two render loops; u, v and
\* r end with the sample loop
MainStore ==
    /\ pc = "render"
    /\ sample = SAMPLES_PER_PIXELS
    /\ frame' = [frame EXCEPT ![j][i] = pixel_color]
    /\ stored' = stored \cup {<<j, i>>}
    /\ pixel_color' = ZERO
    /\ sample' = 0
    /\ IF i + 1 < IMAGE_WIDTH
       THEN i' = i + 1 /\ UNCHANGED <<j, pc>>
       ELSE /\ i' = 0
            /\ IF j > 0
               THEN j' = j - 1 /\ UNCHANGED pc
               ELSE j' = IMAGE_HEIGHT - 1 /\ pc' = "write"
    /\ u' = 0
    /\ v' = 0
    /\ ray' = Ray(ZERO, ZERO)
    /\ UNCHANGED <<call, world, t_min, t_max, idx, closest_so_far, record, probe,
                   colourVars, out>>

\* the write loops with the rows taken bottom to top
MainWrite_RowsAscending ==
    /\ pc = "write"
    /\ out' = Append(out, [kind |-> "pixel",
                           val |-> write_colour(frame[IMAGE_HEIGHT - 1 - j][i],
                                                SAMPLES_PER_PIXELS),
                           j |-> IMAGE_HEIGHT - 1 - j, i |-> i])
    /\ IF i + 1 < IMAGE_WIDTH
       THEN i' = i + 1 /\ UNCHANGED <<j, pc>>
       ELSE /\ i' = 0
            /\ IF j > 0
               THEN j' = j - 1 /\ UNCHANGED pc
               ELSE j' = j /\ pc' = "main_done"
    /\ UNCHANGED <<call, hitVars, colourVars, sample, pixel_color, frame, u, v, stored>>

\* write_colour(frame[j][i], SAMPLES_PER_PIXELS), and the step of the two
\* write loops
MainWrite ==
    /\ pc = "write"
    /\ out' = Append(out, [kind |-> "pixel",
                           val |-> write_colour(frame[j][i], SAMPLES_PER_PIXELS),
                           j |-> j, i |-> i])
    /\ IF i + 1 < IMAGE_WIDTH
       THEN i' = i + 1 /\ UNCHANGED <<j, pc>>
       ELSE /\ i' = 0
            /\ IF j > 0
               THEN j' = j - 1 /\ UNCHANGED pc
               ELSE j' = j /\ pc' = "main_done"
    /\ UNCHANGED <<call, hitVars, colourVars, sample, pixel_color, frame, u, v, stored>>

InitMain == pc = "main" /\ PureIdle /\ HitIdle /\ ColourIdle /\ MainIdle

NextMain == MainStart \/ MainSample \/ MainStore \/ MainWrite

SpecMain == InitMain /\ [][NextMain]_vars

(* C5: the image coordinates u and v the render loop passes to             *)
(* Camera::get_ray lie in [0, 1], for every pixel and every jitter.        *)
C5_Normalized ==
    (pc = "render" /\ sample > 0) => (0 <= u /\ u <= One /\ 0 <= v /\ v <= One)

(* C6: main prints the three header lines first, then one line per pixel,  *)
(* each pixel once, rows from IMAGE_HEIGHT-1 down to 0 and columns         *)
(* ascending within a row, IMAGE_WIDTH*IMAGE_HEIGHT lines in all; a pixel's*)
(* line is printed only after its colour has been stored in the frame.     *)
C6_ScanOrder ==
    /\ pc = "main" => out = <<>>
    /\ pc # "main" =>
         /\ Len(out) >= 3
         /\ out[1].kind = "P3" /\ out[2].kind = "size" /\ out[3].kind = "max"
         /\ out[2].val = <<IMAGE_WIDTH, IMAGE_HEIGHT>>
    /\ pc = "render" => Len(out) = 3
    /\ Len(out) <= 3 + IMAGE_WIDTH * IMAGE_HEIGHT
    /\ pc = "main_done" => Len(out) = 3 + IMAGE_WIDTH * IMAGE_HEIGHT
    /\ \A k \in 4..Len(out) :
         /\ out[k].kind = "pixel"
         /\ out[k].j = IMAGE_HEIGHT - 1 - ((k - 4) \div IMAGE_WIDTH)
         /\ out[k].i = (k - 4) % IMAGE_WIDTH
         /\ <<out[k].j, out[k].i>> \in stored
         /\ out[k].val = write_colour(frame[out[k].j][out[k].i], SAMPLES_PER_PIXELS)

\* the whole image is out, and two of its pixels differ
C6_Witness ==
    /\ pc = "main_done"
    /\ Len(out) = 3 + IMAGE_WIDTH * IMAGE_HEIGHT
    /\ IMAGE_HEIGHT >= 2
    /\ out[4].val # out[Len(out)].val

====
